---- MODULE Spec2Model ----
(***************************************************************************)
(* A model of GDriveWarehouse (src/load.py): the file index, the in-memory *)
(* cache with TTL + fingerprint validation, the metadata collection and    *)
(* the facade operations, over a small remote Drive store that can change  *)
(* and whose gateway calls can fail.                                       *)
(*                                                                         *)
(* Time is counted in minutes.  Strings that the code takes apart (file    *)
(* names) are sequences of one-character strings.  A value that may be     *)
(* None is a set with at most one element ({} is None).  md5 is modelled   *)
(* as injective: a fingerprint is the string that is hashed.               *)
(***************************************************************************)
EXTENDS Integers, Sequences, FiniteSets, TLC

\* ---------------------------------------------------------------- bounds
\* The clock runs from 0 to MaxTime minutes.
MaxTime == 2
\* cache_ttl_minutes is drawn from 1..MaxTTL at construction.
MaxTTL == 2
\* Each remote file is modified at most MaxMTime times.
MaxMTime == 1
\* get_tables is called with at most MaxBatch names.
MaxBatch == 2

\* A folder of a store tree drawn for an index build has at most MaxEntries entries.
MaxEntries == 2

\* A parse of a delimited-text payload has at most MaxColumns columns.
MaxColumns == 2

\* A json mapping has at most MaxKeys keys, a json list at most MaxRows elements.
MaxKeys == 3
MaxRows == 2

\* cache_ttl_minutes is drawn from 0..MaxMinutes where the TTL itself is what
\* is looked at (a day has 1440 minutes).
MaxMinutes == 1441

VARIABLES
    now,                    \* datetime.now(), in minutes
    cache_ttl,              \* self.cache_ttl, in minutes
    sheet_name,             \* self.sheet_name, the default sheet selector
    remote,                 \* the Drive store: per file id, modifiedTime and payload
    cache,                  \* self._cache: cache key -> entry
    file_index,             \* self._file_index: {} (None) or {name -> file info}
    file_index_timestamp,   \* self._file_index_timestamp: {} (None) or {minute}
    metadata,               \* self.metadata: table name -> record
    ret,                    \* the last facade call and what it returned
    gw                      \* the gateway calls the last facade call made, in order

vars == <<now, cache_ttl, sheet_name, remote, cache, file_index,
          file_index_timestamp, metadata, ret, gw>>

\* ------------------------------------------------------- strings as code
LowerChar(c) ==
    CASE c = "A" -> "a" [] c = "C" -> "c" [] c = "S" -> "s" [] c = "V" -> "v"
      [] c = "T" -> "t" [] c = "X" -> "x" [] c = "N" -> "n" [] c = "O" -> "o"
      [] c = "E" -> "e" [] OTHER -> c

UpperChar(c) ==
    CASE c = "a" -> "A" [] c = "c" -> "C" [] c = "s" -> "S" [] c = "v" -> "V"
      [] c = "t" -> "T" [] c = "x" -> "X" [] c = "n" -> "N" [] c = "o" -> "O"
      [] c = "e" -> "E" [] OTHER -> c

\* str.lower() / str.upper()
Lower(s) == [i \in 1..Len(s) |-> LowerChar(s[i])]
Upper(s) == [i \in 1..Len(s) |-> UpperChar(s[i])]

\* The position of the last "." of s, 0 when it has none.
LastDot(s) ==
    LET dots == {i \in 1..Len(s) : s[i] = "."}
    IN  IF dots = {} THEN 0 ELSE CHOOSE i \in dots : \A j \in dots : j <= i

\* s.split('.')[-1]: what follows the last dot, all of s when it has none.
SplitLast(s) == SubSeq(s, LastDot(s) + 1, Len(s))

\* s.rsplit('.', 1)[0]: what precedes the last dot, all of s when it has none.
RSplitHead(s) == IF LastDot(s) = 0 THEN s ELSE SubSeq(s, 1, LastDot(s) - 1)

\* ---------------------------------------------------------- the store
FOLDER_MIME == "application/vnd.google-apps.folder"
SHEET_MIME == "application/vnd.google-apps.spreadsheet"
CSV_MIME == "text/csv"
TXT_MIME == "text/plain"

\* self.folder_id
RootFolder == "root"

\* The entries of the store: what files().list returns for each folder, in order
\* (modifiedTime is the live one, added when a listing is made).
Entries ==
    [root |-> << [id |-> "f1", name |-> <<"a", ".", "c", "s", "v">>, mimeType |-> CSV_MIME],
                 [id |-> "sub", name |-> <<"s", "u", "b">>, mimeType |-> FOLDER_MIME],
                 [id |-> "f3", name |-> <<"n", ".", "t", "x", "t">>, mimeType |-> TXT_MIME] >>,
     sub  |-> << [id |-> "f2", name |-> <<"b">>, mimeType |-> SHEET_MIME] >>]

FileIds == {"f1", "f2", "f3"}

\* The sheet titles of the native spreadsheet f2 (spreadsheets().get).
SheetTitles == <<"P1", "P2">>

\* The table names a caller asks for: the two indexed ones and one that is not.
NameA == <<"a">>
NameB == <<"b">>
NameMissing == <<"z">>
Names == {NameA, NameB, NameMissing}

\* Sheet selectors, written as Python writes them: None and the int 1 (with the
\* default sheet 0, None selects sheet 0).
Selectors == {"None", "1"}

\* bool(sel): None, 0 and '' are falsy.
Truthy(sel) == sel \notin {"None", "0", "''"}
IsInt(sel) == sel \in {"0", "1", "2", "-1", "-3"}
IntVal(sel) ==
    CASE sel = "0" -> 0 [] sel = "1" -> 1 [] sel = "2" -> 2 [] sel = "-1" -> -1
      [] sel = "-3" -> -3
\* f"{sel}"
Fmt(sel) ==
    CASE sel = "'P1'" -> "P1" [] sel = "'P2'" -> "P2" [] sel = "'X'" -> "X"
      [] sel = "''" -> "" [] OTHER -> sel

\* ------------------------------------------------------------ the world
\* The state the operations read and write, as one record.
World ==
    [now |-> now, cache_ttl |-> cache_ttl, sheet_name |-> sheet_name,
     remote |-> remote, cache |-> cache, file_index |-> file_index,
     file_index_timestamp |-> file_index_timestamp, metadata |-> metadata]

\* d[k] = v (a dict assignment) and del d[k].
Put(d, k, v) == [x \in DOMAIN d \cup {k} |-> IF x = k THEN v ELSE d[x]]
Del(d, k) == [x \in DOMAIN d \ {k} |-> d[x]]
EmptyDict == <<>>

\* One gateway call, as it is logged in gw: the API, the file or folder it is
\* about, and whether it answered ("ok") or raised ("error").
Call(api, id, status) == <<api, id, status>>
Status(ok) == IF ok THEN "ok" ELSE "error"

\* ------------------------------------------------------------ the index
SupportedExt ==
    { <<"c", "s", "v">>, <<"x", "l", "s", "x">>, <<"x", "l", "s">>,
      <<"j", "s", "o", "n">>, <<"g", "e", "o", "j", "s", "o", "n">> }

\* _list_files_recursive, from the i-th entry of the folder on: a folder is
\* recursed into, any other entry is appended with its live modifiedTime.
RECURSIVE ListFrom(_, _, _)
ListFrom(folder_id, i, rem) ==
    IF i > Len(Entries[folder_id]) THEN <<>>
    ELSE LET file == Entries[folder_id][i]
             here == IF file.mimeType = FOLDER_MIME
                     THEN ListFrom(file.id, 1, rem)
                     ELSE << [id |-> file.id, name |-> file.name,
                              mimeType |-> file.mimeType,
                              modifiedTime |-> rem[file.id].modifiedTime] >>
         IN  here \o ListFrom(folder_id, i + 1, rem)

ListFilesRecursive(folder_id, rem) == ListFrom(folder_id, 1, rem)

\* The loop of _build_file_index over all_files, from an index built so far.
RECURSIVE IndexFiles(_, _)
IndexFiles(all_files, idx) ==
    IF all_files = <<>> THEN idx
    ELSE LET file == Head(all_files)
             ext == SplitLast(Lower(file.name))
             next == IF file.mimeType = SHEET_MIME
                     THEN Put(idx, file.name, file)
                     ELSE IF ext \in SupportedExt
                          THEN Put(idx, RSplitHead(file.name), file)
                          ELSE idx
         IN  IndexFiles(Tail(all_files), next)

\* A variant of the index-cache test that does not look at force_refresh.
IndexReusableForced(W, force_refresh) ==
    /\ W.file_index # {}
    /\ W.file_index_timestamp # {}
    /\ \E t \in W.file_index_timestamp : W.now - t < W.cache_ttl

\* The index-cache test of _build_file_index: reuse the stored index.
IndexReusable(W, force_refresh) ==
    /\ ~force_refresh
    /\ W.file_index # {}
    /\ W.file_index_timestamp # {}
    /\ \E t \in W.file_index_timestamp : W.now - t < W.cache_ttl

\* The folders _list_files_recursive lists, in the order of its files().list
\* calls, from the i-th entry of the folder on (each folder is one page).
RECURSIVE FoldersFrom(_, _)
FoldersFrom(folder_id, i) ==
    IF i > Len(Entries[folder_id]) THEN <<>>
    ELSE LET file == Entries[folder_id][i]
             here == IF file.mimeType = FOLDER_MIME
                     THEN <<file.id>> \o FoldersFrom(file.id, 1)
                     ELSE <<>>
         IN  here \o FoldersFrom(folder_id, i + 1)

ListedFolders(folder_id) == <<folder_id>> \o FoldersFrom(folder_id, 1)

\* The listing calls logged when the first n succeed and, if failed, the next raises.
ListingCalls(folders, n, failed) ==
    [i \in 1..(IF failed THEN n + 1 ELSE n) |->
        Call("files.list", folders[i], IF i <= n THEN "ok" ELSE "error")]

\* A variant of _build_file_index that stores what it has gathered, with a new
\* build time, when a listing call raises.
BuildFileIndexPartial(W, force_refresh) ==
    IF IndexReusable(W, force_refresh)
    THEN { [W |-> W, raised |-> FALSE,
            index |-> CHOOSE x \in W.file_index : TRUE, gw |-> <<>>] }
    ELSE LET built == IndexFiles(ListFilesRecursive(RootFolder, W.remote), EmptyDict)
             folders == ListedFolders(RootFolder)
         IN  { [W |-> [W EXCEPT !.file_index = {EmptyDict},
                                !.file_index_timestamp = {W.now}],
                raised |-> TRUE, index |-> EmptyDict,
                gw |-> ListingCalls(folders, n, TRUE)] : n \in 0..(Len(folders) - 1) }
             \cup
             { [W |-> [W EXCEPT !.file_index = {built},
                                !.file_index_timestamp = {W.now}],
                raised |-> FALSE, index |-> built,
                gw |-> ListingCalls(folders, Len(folders), FALSE)] }

\* _build_file_index: every outcome, one per answer of the gateway.  An outcome
\* is [W, raised, index, gw]; a listing error, at any of the listing calls, is
\* raised before anything is stored.
BuildFileIndex(W, force_refresh) ==
    IF IndexReusable(W, force_refresh)
    THEN { [W |-> W, raised |-> FALSE,
            index |-> CHOOSE x \in W.file_index : TRUE, gw |-> <<>>] }
    ELSE LET built == IndexFiles(ListFilesRecursive(RootFolder, W.remote), EmptyDict)
             folders == ListedFolders(RootFolder)
         IN  { [W |-> W, raised |-> TRUE, index |-> EmptyDict,
                gw |-> ListingCalls(folders, n, TRUE)] : n \in 0..(Len(folders) - 1) }
             \cup
             { [W |-> [W EXCEPT !.file_index = {built},
                                !.file_index_timestamp = {W.now}],
                raised |-> FALSE, index |-> built,
                gw |-> ListingCalls(folders, Len(folders), FALSE)] }

\* ------------------------------------------------------------ the cache
\* _is_cache_valid: the entry is younger than the TTL.
\* Two variants of the TTL test: one a minute short, one without a TTL.
IsCacheValidShort(cache_entry, W) == W.now - cache_entry.timestamp < W.cache_ttl - 1
IsCacheValidForever(cache_entry, W) == TRUE

IsCacheValid(cache_entry, W) == W.now - cache_entry.timestamp < W.cache_ttl

\* A variant of the fingerprint that leaves the modifiedTime out.
GetFileHashIdOnly(file_id, rem, metaOK) == [id |-> file_id, mt |-> {}]

\* _get_file_hash: the string hashed is "<id>_<modifiedTime>", or the id alone
\* when the metadata lookup raised (metaOK = FALSE).
GetFileHash(file_id, rem, metaOK) ==
    IF metaOK THEN [id |-> file_id, mt |-> {rem[file_id].modifiedTime}]
    ELSE [id |-> file_id, mt |-> {}]

\* cache_key = f"{file_id}_{sheet_name if sheet_name else self.sheet_name}"
CacheKey(file_id, sel, W) ==
    <<file_id, Fmt(IF Truthy(sel) THEN sel ELSE W.sheet_name)>>

\* A variant of copy that hands out the object itself.
CopyAlias(obj) == obj

\* df.copy(): an object of its own with the same content.
Copy(obj) == [obj EXCEPT !.oid = obj.oid + 1]

\* What a dataset reference handed to the caller is: the content, and whether
\* the object is the very one the cache entry holds.
Handle(obj, cached, cache_key) ==
    [df |-> obj.df, key |-> cache_key, shared |-> obj.oid = cached.oid]

\* ---------------------------------------------------------- the parsers
\* What the remote holds for a file right now: version v of a file is stamped
\* modifiedTime v, has v + 1 data rows and the columns k, v; a payload that is
\* not ok is one no parser accepts (one-column csv, empty sheet).
Payload(file_id, rem) ==
    [ok |-> rem[file_id].ok, ver |-> rem[file_id].modifiedTime,
     rows |-> rem[file_id].modifiedTime + 1, columns |-> <<"k", "v">>]

\* A dataset parsed from a payload: a new object (oid 0) with its content.
NewFrame(file_id, payload, sheet) ==
    [df |-> [src |-> file_id, ver |-> payload.ver, sheet |-> sheet,
             shape |-> <<payload.rows, Len(payload.columns)>>,
             columns |-> payload.columns, dirty |-> FALSE],
     oid |-> 0]

\* The sheet title _read_google_sheet resolves, {} when the selector is refused.
\* (A negative int indexes from the end, as a Python list does.)
ResolveSheet(target, sheets) ==
    IF IsInt(target)
    THEN LET n == IntVal(target)
         IN  IF n >= Len(sheets) THEN {}
             ELSE IF n >= 0 THEN {sheets[n + 1]}
             ELSE IF -n <= Len(sheets) THEN {sheets[Len(sheets) + n + 1]}
             ELSE {}
    ELSE IF \E i \in 1..Len(sheets) : sheets[i] = Fmt(target) THEN {Fmt(target)} ELSE {}

\* _read_google_sheet with the gateway answering: [frame, gw], frame {} for None.
ReadGoogleSheet(W, file_id, sel) ==
    LET target == IF sel # "None" THEN sel ELSE W.sheet_name
        title == ResolveSheet(target, SheetTitles)
        payload == Payload(file_id, W.remote)
    IN  IF SheetTitles = <<>> \/ title = {}
        THEN [frame |-> {}, gw |-> <<Call("sheets.get", file_id, "ok")>>]
        ELSE [frame |-> IF payload.ok
                        THEN {NewFrame(file_id, payload, CHOOSE t \in title : TRUE)}
                        ELSE {},
              gw |-> <<Call("sheets.get", file_id, "ok"),
                       Call("values.get", file_id, "ok")>>]

\* The download and the parse of a regular file by its extension: [frame, gw].
\* csv, json and geojson ignore the sheet selector; a workbook reads excel_sheet.
ReadRegular(W, file_id, file_type, sel) ==
    LET payload == Payload(file_id, W.remote)
        excel_sheet == IF sel # "None" THEN sel ELSE W.sheet_name
        sheet == IF file_type \in {<<"x", "l", "s", "x">>, <<"x", "l", "s">>}
                 THEN Fmt(excel_sheet) ELSE ""
    IN  [frame |-> IF payload.ok THEN {NewFrame(file_id, payload, sheet)} ELSE {},
         gw |-> <<Call("get_media", file_id, "ok")>>]

\* What the remote may do to the file while its load is in progress.
RemoteDuringLoad(W, file_id) ==
    {W.remote} \cup
    IF W.remote[file_id].modifiedTime < MaxMTime
    THEN { [W.remote EXCEPT ![file_id] =
                [modifiedTime |-> W.remote[file_id].modifiedTime + 1, ok |-> b]]
           : b \in BOOLEAN }
    ELSE {}

\* A variant of the miss path in which a failed fingerprint lookup fails the
\* load: nothing is stored and None is returned.
LoadFileNoFallback(W, file_info, sel, cache_key, gw0) ==
    LET file_id == file_info.id
        is_google_sheet == file_info.mimeType = SHEET_MIME
        file_type == SplitLast(Lower(file_info.name))
        read == IF is_google_sheet THEN ReadGoogleSheet(W, file_id, sel)
                ELSE ReadRegular(W, file_id, file_type, sel)
        failed == [W |-> W, frame |-> {}, hit |-> FALSE,
                   gw |-> gw0 \o <<Call(read.gw[1][1], file_id, "error")>>]
    IN  {failed} \cup
        IF read.frame = {}
        THEN { [W |-> W, frame |-> {}, hit |-> FALSE, gw |-> gw0 \o read.gw] }
        ELSE LET obj == CHOOSE x \in read.frame : TRUE
                 stored == Copy(obj)
             IN  { IF metaOK
                   THEN [W |-> [W EXCEPT !.remote = rem,
                                         !.cache = Put(W.cache, cache_key,
                                             [df |-> stored.df, timestamp |-> W.now,
                                              hash |-> GetFileHash(file_id, rem, metaOK),
                                              file_name |-> file_info.name])],
                         frame |-> {Handle(obj, stored, cache_key)},
                         hit |-> FALSE,
                         gw |-> gw0 \o read.gw
                               \o <<Call("files.get", file_id, "ok")>>]
                   ELSE [W |-> [W EXCEPT !.remote = rem], frame |-> {}, hit |-> FALSE,
                         gw |-> gw0 \o read.gw
                               \o <<Call("files.get", file_id, "error")>>]
                   : rem \in RemoteDuringLoad(W, file_id), metaOK \in BOOLEAN }

\* The miss path of _read_file (download, parse, store): every outcome
\* [W, frame, gw], frame {} for None.  A gateway error while fetching is caught
\* and gives None; the entry is stored under the fingerprint read after the parse.
LoadFile(W, file_info, sel, cache_key, gw0) ==
    LET file_id == file_info.id
        is_google_sheet == file_info.mimeType = SHEET_MIME
        file_type == SplitLast(Lower(file_info.name))
        read == IF is_google_sheet THEN ReadGoogleSheet(W, file_id, sel)
                ELSE ReadRegular(W, file_id, file_type, sel)
        failed == [W |-> W, frame |-> {}, hit |-> FALSE,
                   gw |-> gw0 \o <<Call(read.gw[1][1], file_id, "error")>>]
    IN  {failed} \cup
        IF read.frame = {}
        THEN { [W |-> W, frame |-> {}, hit |-> FALSE, gw |-> gw0 \o read.gw] }
        ELSE LET obj == CHOOSE x \in read.frame : TRUE
                 stored == Copy(obj)
             IN  { [W |-> [W EXCEPT !.remote = rem,
                                    !.cache = Put(W.cache, cache_key,
                                        [df |-> stored.df, timestamp |-> W.now,
                                         hash |-> GetFileHash(file_id, rem, metaOK),
                                         file_name |-> file_info.name])],
                    frame |-> {Handle(obj, stored, cache_key)},
                    hit |-> FALSE,
                    gw |-> gw0 \o read.gw
                          \o <<Call("files.get", file_id, Status(metaOK))>>]
                   : rem \in RemoteDuringLoad(W, file_id), metaOK \in BOOLEAN }

\* A variant of _read_file whose hit renews the capture timestamp of the entry.
ReadFileTouch(W, file_info, sel) ==
    LET file_id == file_info.id
        ext == SplitLast(Lower(file_info.name))
        cache_key == CacheKey(file_id, sel, W)
    IN  IF file_info.mimeType # SHEET_MIME /\ ext \notin SupportedExt
        THEN { [W |-> W, frame |-> {}, hit |-> FALSE, gw |-> <<>>] }
        ELSE IF cache_key \in DOMAIN W.cache /\ IsCacheValid(W.cache[cache_key], W)
        THEN LET cache_entry == W.cache[cache_key]
                 held == [df |-> cache_entry.df, oid |-> 0]
                 copy == Copy(held)
             IN  UNION { LET check == <<Call("files.get", file_id, Status(metaOK))>> IN
                         IF GetFileHash(file_id, W.remote, metaOK) = cache_entry.hash
                         THEN { [W |-> [W EXCEPT !.cache[cache_key].timestamp = W.now],
                                 frame |-> {Handle(copy, held, cache_key)},
                                 hit |-> TRUE, gw |-> check] }
                         ELSE LoadFile(W, file_info, sel, cache_key, check)
                         : metaOK \in BOOLEAN }
        ELSE LoadFile(W, file_info, sel, cache_key, <<>>)

\* _read_file: the cache lookup, then the miss path.
ReadFile(W, file_info, sel) ==
    LET file_id == file_info.id
        ext == SplitLast(Lower(file_info.name))
        cache_key == CacheKey(file_id, sel, W)
    IN  IF file_info.mimeType # SHEET_MIME /\ ext \notin SupportedExt
        THEN { [W |-> W, frame |-> {}, hit |-> FALSE, gw |-> <<>>] }
        ELSE IF cache_key \in DOMAIN W.cache /\ IsCacheValid(W.cache[cache_key], W)
        THEN LET cache_entry == W.cache[cache_key]
                 held == [df |-> cache_entry.df, oid |-> 0]
                 copy == Copy(held)
             IN  UNION { LET check == <<Call("files.get", file_id, Status(metaOK))>> IN
                         IF GetFileHash(file_id, W.remote, metaOK) = cache_entry.hash
                         THEN { [W |-> W,
                                 frame |-> {Handle(copy, held, cache_key)},
                                 hit |-> TRUE, gw |-> check] }
                         ELSE LoadFile(W, file_info, sel, cache_key, check)
                         : metaOK \in BOOLEAN }
        ELSE LoadFile(W, file_info, sel, cache_key, <<>>)

\* ------------------------------------------------------------ the facade
GOOGLE_SHEET == <<"Google Sheet">>

\* The record get_table writes to self.metadata (the definition in force, the
\* second one of the class).
MetadataRecord(W, file_info, frame) ==
    [file_name |-> file_info.name,
     file_type |-> IF file_info.mimeType = SHEET_MIME THEN GOOGLE_SHEET
                   ELSE Upper(SplitLast(file_info.name)),
     shape |-> frame.df.shape,
     columns |-> frame.df.columns,
     modified_time |-> file_info.modifiedTime,
     loaded_at |-> W.now]

\* A variant of the forced refresh that deletes nothing.
ForceRefreshKeep(W, file_info, sel, force_refresh) == W

\* The cache the forced refresh of get_table leaves: the one key deleted.
ForceRefresh(W, file_info, sel, force_refresh) ==
    LET cache_key == CacheKey(file_info.id, sel, W)
    IN  IF force_refresh /\ cache_key \in DOMAIN W.cache
        THEN [W EXCEPT !.cache = Del(W.cache, cache_key)]
        ELSE W

\* get_table: every outcome [W, kind, frame, gw]; kind is "df", "None" or
\* "raise" (the listing error of the index build, which nothing catches).
GetTable(W, name, sel, force_refresh) ==
    UNION {
        IF b.raised
        THEN { [W |-> b.W, kind |-> "raise", frame |-> {}, gw |-> b.gw] }
        ELSE IF name \notin DOMAIN b.index
        THEN { [W |-> b.W, kind |-> "None", frame |-> {}, gw |-> b.gw] }
        ELSE LET file_info == b.index[name]
                 W1 == ForceRefresh(b.W, file_info, sel, force_refresh)
             IN  { IF r.frame = {}
                   THEN [W |-> r.W, kind |-> "None", frame |-> {}, gw |-> b.gw \o r.gw]
                   ELSE [W |-> [r.W EXCEPT !.metadata =
                                   Put(r.W.metadata, name,
                                       MetadataRecord(r.W, file_info,
                                                      CHOOSE f \in r.frame : TRUE))],
                         kind |-> "df", frame |-> r.frame, gw |-> b.gw \o r.gw]
                   : r \in ReadFile(W1, file_info, sel) }
        : b \in BuildFileIndex(W, FALSE) }

\* A variant of the loop that ends the batch at the first None.
RECURSIVE GetTablesFromStop(_, _, _)
GetTablesFromStop(part, names, sel) ==
    IF names = <<>> THEN {part}
    ELSE UNION {
        IF o.kind = "raise"
        THEN { [W |-> o.W, results |-> part.results,
                gw |-> part.gw \o o.gw, raised |-> TRUE] }
        ELSE IF o.kind = "None"
        THEN { [W |-> o.W, results |-> part.results,
                gw |-> part.gw \o o.gw, raised |-> FALSE] }
        ELSE GetTablesFromStop(
                 [W |-> o.W,
                  results |-> Put(part.results, Head(names), CHOOSE f \in o.frame : TRUE),
                  gw |-> part.gw \o o.gw, raised |-> FALSE],
                 Tail(names), sel)
        : o \in GetTable(part.W, Head(names), sel, FALSE) }

\* The loop of get_tables from a partial result [W, results, gw, raised] over
\* the names left: a None is left out, a raise ends the batch.
RECURSIVE GetTablesFrom(_, _, _)
GetTablesFrom(part, names, sel) ==
    IF names = <<>> THEN {part}
    ELSE UNION {
        IF o.kind = "raise"
        THEN { [W |-> o.W, results |-> part.results,
                gw |-> part.gw \o o.gw, raised |-> TRUE] }
        ELSE GetTablesFrom(
                 [W |-> o.W,
                  results |-> IF o.kind = "df"
                              THEN Put(part.results, Head(names), CHOOSE f \in o.frame : TRUE)
                              ELSE part.results,
                  gw |-> part.gw \o o.gw, raised |-> FALSE],
                 Tail(names), sel)
        : o \in GetTable(part.W, Head(names), sel, FALSE) }

GetTables(W, names, sel) ==
    GetTablesFrom([W |-> W, results |-> EmptyDict, gw |-> <<>>, raised |-> FALSE],
                  names, sel)

\* pd.merge(left_df, right_df, on=on, how=how): a KeyError when a side lacks
\* the key column, else the joined frame (a new object).
Hows == {"inner", "left", "right", "outer"}
HasColumn(df, col) == \E i \in 1..Len(df.columns) : df.columns[i] = col
Merge(left_df, right_df, on, how) ==
    IF HasColumn(left_df, on) /\ HasColumn(right_df, on) /\ how \in Hows
    THEN {[left |-> left_df, right |-> right_df, on |-> on, how |-> how]}
    ELSE {}

\* A variant of the end of join_tables that returns None for a side that
\* did not load.
JoinLoadedNull(l, r, on, how) ==
    IF l.frame = {} \/ r.frame = {}
    THEN [W |-> r.W, kind |-> "None", err |-> "",
          joined |-> {}, gw |-> l.gw \o r.gw]
    ELSE LET m == Merge((CHOOSE f \in l.frame : TRUE).df,
                        (CHOOSE f \in r.frame : TRUE).df, on, how)
         IN  [W |-> r.W, kind |-> IF m = {} THEN "raise" ELSE "df",
              err |-> IF m = {} THEN "KeyError" ELSE "",
              joined |-> m, gw |-> l.gw \o r.gw]

\* The end of join_tables, once get_table has answered l for the left table
\* and r for the right one: the ValueError when a side is None, else the merge.
JoinLoaded(l, r, on, how) ==
    IF l.frame = {} \/ r.frame = {}
    THEN [W |-> r.W, kind |-> "raise", err |-> "ValueError",
          joined |-> {}, gw |-> l.gw \o r.gw]
    ELSE LET m == Merge((CHOOSE f \in l.frame : TRUE).df,
                        (CHOOSE f \in r.frame : TRUE).df, on, how)
         IN  [W |-> r.W, kind |-> IF m = {} THEN "raise" ELSE "df",
              err |-> IF m = {} THEN "KeyError" ELSE "",
              joined |-> m, gw |-> l.gw \o r.gw]

\* join_tables: both sides are loaded, then the ValueError or the merge.
\* Every outcome [W, kind, err, joined, gw].
JoinTables(W, left_table, right_table, on, how, sel) ==
    UNION {
        IF l.kind = "raise"
        THEN { [W |-> l.W, kind |-> "raise", err |-> "ListingError",
                joined |-> {}, gw |-> l.gw] }
        ELSE { IF r.kind = "raise"
               THEN [W |-> r.W, kind |-> "raise", err |-> "ListingError",
                     joined |-> {}, gw |-> l.gw \o r.gw]
               ELSE JoinLoaded(l, r, on, how)
               : r \in GetTable(l.W, right_table, sel, FALSE) }
        : l \in GetTable(W, left_table, sel, FALSE) }

\* A variant of clear_cache that keeps the index, and one that also empties
\* the metadata.
ClearCacheKeepIndex(W) == [W EXCEPT !.cache = EmptyDict]
ClearCacheAll(W) ==
    [W EXCEPT !.cache = EmptyDict, !.file_index = {},
              !.file_index_timestamp = {}, !.metadata = EmptyDict]

\* clear_cache
ClearCache(W) ==
    [W EXCEPT !.cache = EmptyDict, !.file_index = {}, !.file_index_timestamp = {}]

\* timedelta.seconds // 60 of a timedelta of m minutes.
TtlMinutes(m) == ((m * 60) % 86400) \div 60

\* A variant of get_cache_info that counts an entry valid as a lookup would
\* serve it: inside the TTL and under the fingerprint of the remote file.
GetCacheInfoAsLookup(W) ==
    LET valid == {k \in DOMAIN W.cache :
                     /\ IsCacheValid(W.cache[k], W)
                     /\ W.cache[k].hash = GetFileHash(k[1], W.remote, TRUE)}
    IN  [total_entries |-> Cardinality(DOMAIN W.cache),
         valid_entries |-> Cardinality(valid),
         expired_entries |-> Cardinality(DOMAIN W.cache) - Cardinality(valid),
         ttl_minutes |-> TtlMinutes(W.cache_ttl),
         indexed_files |-> IF W.file_index # {}
                           THEN Cardinality(DOMAIN (CHOOSE x \in W.file_index : TRUE))
                           ELSE 0]

\* get_cache_info (without the size estimate).
GetCacheInfo(W) ==
    LET valid == {k \in DOMAIN W.cache : IsCacheValid(W.cache[k], W)}
    IN  [total_entries |-> Cardinality(DOMAIN W.cache),
         valid_entries |-> Cardinality(valid),
         expired_entries |-> Cardinality(DOMAIN W.cache) - Cardinality(valid),
         ttl_minutes |-> TtlMinutes(W.cache_ttl),
         indexed_files |-> IF W.file_index # {}
                           THEN Cardinality(DOMAIN (CHOOSE x \in W.file_index : TRUE))
                           ELSE 0]

\* get_metadata: one record ({} when there is none) or the whole collection.
GetMetadata(W, name) ==
    IF name # <<>>
    THEN IF name \in DOMAIN W.metadata THEN {W.metadata[name]} ELSE {}
    ELSE {W.metadata}

\* sorted(): the names in lexicographic order of their characters.
Alphabet == <<".", "a", "b", "c", "s", "t", "u", "v", "x", "z">>
Ord(c) == CHOOSE i \in 1..Len(Alphabet) : Alphabet[i] = c
RECURSIVE Less(_, _)
Less(s, t) ==
    IF t = <<>> THEN FALSE
    ELSE IF s = <<>> THEN TRUE
    ELSE IF Ord(Head(s)) # Ord(Head(t)) THEN Ord(Head(s)) < Ord(Head(t))
    ELSE Less(Tail(s), Tail(t))
RECURSIVE Sorted(_)
Sorted(S) ==
    IF S = {} THEN <<>>
    ELSE LET least == CHOOSE x \in S : \A y \in S \ {x} : Less(x, y)
         IN  <<least>> \o Sorted(S \ {least})

\* A variant of list_tables whose forced refresh also drops the cache.
ListTablesDropCache(W, force_refresh) ==
    { IF b.raised
      THEN [W |-> b.W, kind |-> "raise", names |-> <<>>, gw |-> b.gw]
      ELSE [W |-> IF force_refresh THEN [b.W EXCEPT !.cache = EmptyDict] ELSE b.W,
            kind |-> "names", names |-> Sorted(DOMAIN b.index), gw |-> b.gw]
      : b \in BuildFileIndex(W, force_refresh) }

\* list_tables: every outcome [W, kind, names, gw].
ListTables(W, force_refresh) ==
    { IF b.raised
      THEN [W |-> b.W, kind |-> "raise", names |-> <<>>, gw |-> b.gw]
      ELSE [W |-> b.W, kind |-> "names", names |-> Sorted(DOMAIN b.index), gw |-> b.gw]
      : b \in BuildFileIndex(W, force_refresh) }

\* keyword in name, both sequences of characters.
Contains(keyword, name) ==
    \E i \in 0..(Len(name) - Len(keyword)) :
        SubSeq(name, i + 1, i + Len(keyword)) = keyword

\* The keys of the files in the order the loop of _build_file_index first
\* inserts them (a dict keeps its keys in insertion order).
RECURSIVE KeysFrom(_, _)
KeysFrom(all_files, keys) ==
    IF all_files = <<>> THEN keys
    ELSE LET file == Head(all_files)
             ext == SplitLast(Lower(file.name))
             key == IF file.mimeType = SHEET_MIME THEN {file.name}
                    ELSE IF ext \in SupportedExt THEN {RSplitHead(file.name)}
                    ELSE {}
             new == {k \in key : \A i \in 1..Len(keys) : keys[i] # k}
         IN  KeysFrom(Tail(all_files),
                      IF new = {} THEN keys ELSE Append(keys, CHOOSE k \in new : TRUE))

\* file_index.keys(): the names and the order of the store's files never
\* change, so the keys of an index are in the order of a listing of the store.
IndexKeys(index) ==
    LET InIndex(k) == k \in DOMAIN index
    IN  SelectSeq(KeysFrom(ListFilesRecursive(RootFolder,
                              [id \in FileIds |-> [modifiedTime |-> 0, ok |-> TRUE]]),
                           <<>>),
                  InIndex)

\* search_tables: every outcome [W, kind, names, gw].
SearchTables(W, keyword) ==
    { IF b.raised
      THEN [W |-> b.W, kind |-> "raise", names |-> <<>>, gw |-> b.gw]
      ELSE LET Matches(name) == Contains(Lower(keyword), Lower(name))
           IN  [W |-> b.W, kind |-> "names",
                names |-> SelectSeq(IndexKeys(b.index), Matches), gw |-> b.gw]
      : b \in BuildFileIndex(W, FALSE) }

\* ----------------------------------------------------------- the actions
\* The files of the store that the index names (f3 is listed and skipped).
TableFiles == {"f1", "f2"}
Ons == {"k", "q"}

\* All sequences over S of length 0..n.
RECURSIVE SeqsUpTo(_, _)
SeqsUpTo(S, n) ==
    IF n = 0 THEN {<<>>}
    ELSE LET shorter == SeqsUpTo(S, n - 1)
         IN  shorter \cup {Append(q, x) : q \in {p \in shorter : Len(p) = n - 1}, x \in S}

\* ret before any call.
NoCall == [op |-> "init", kind |-> "", dfs |-> EmptyDict]

\* The warehouse as __init__ leaves it (sheet_name at its default, 0), over a
\* store whose files all parse.
Init ==
    /\ now = 0
    /\ cache_ttl \in 1..MaxTTL
    /\ sheet_name = "0"
    /\ remote = [id \in FileIds |-> [modifiedTime |-> 0, ok |-> TRUE]]
    /\ cache = EmptyDict
    /\ file_index = {}
    /\ file_index_timestamp = {}
    /\ metadata = EmptyDict
    /\ ret = NoCall
    /\ gw = <<>>

\* The world an operation leaves becomes the state.
Becomes(W) ==
    /\ remote' = W.remote
    /\ cache' = W.cache
    /\ file_index' = W.file_index
    /\ file_index_timestamp' = W.file_index_timestamp
    /\ metadata' = W.metadata
    /\ UNCHANGED <<now, cache_ttl, sheet_name>>

\* A minute passes.
Tick ==
    /\ now < MaxTime
    /\ now' = now + 1
    /\ UNCHANGED <<cache_ttl, sheet_name, remote, cache, file_index,
                   file_index_timestamp, metadata, ret, gw>>

\* Somebody edits file id in the Drive: a new modifiedTime, a new payload.
RemoteModifyFile(id, ok) ==
    /\ remote[id].modifiedTime < MaxMTime
    /\ remote' = [remote EXCEPT ![id] =
                     [modifiedTime |-> remote[id].modifiedTime + 1, ok |-> ok]]
    /\ UNCHANGED <<now, cache_ttl, sheet_name, cache, file_index,
                   file_index_timestamp, metadata, ret, gw>>

RemoteModify == \E ok \in BOOLEAN : RemoteModifyFile("f1", ok)

RemoteModifyAny == \E id \in TableFiles, ok \in BOOLEAN : RemoteModifyFile(id, ok)

\* The caller changes, in place, a dataset the last call handed to it; the
\* cache entry changes with it when both are the same object.
CallerMutate ==
    \E name \in DOMAIN ret.dfs :
        LET h == ret.dfs[name]
        IN  /\ ~h.df.dirty
            /\ ret' = [ret EXCEPT !.dfs[name].df.dirty = TRUE]
            /\ cache' = IF h.shared /\ h.key \in DOMAIN cache
                        THEN [cache EXCEPT ![h.key].df.dirty = TRUE]
                        ELSE cache
            /\ UNCHANGED <<now, cache_ttl, sheet_name, remote, file_index,
                           file_index_timestamp, metadata, gw>>

\* The index a listing of the store gives at construction (the names and
\* the ids of the files never change).
StoreIndex ==
    IndexFiles(ListFilesRecursive(RootFolder,
                   [id \in FileIds |-> [modifiedTime |-> 0, ok |-> TRUE]]),
               EmptyDict)

\* What a caller of get_table could see just before the call: the cache entry
\* of the call's key ({} when there is none) and the Drive's modifiedTime of
\* the file ({} when the store has no file of that name).
Before(name, sel) ==
    IF name \in DOMAIN StoreIndex
    THEN LET file_id == StoreIndex[name].id
             cache_key == CacheKey(file_id, sel, World)
         IN  [entry |-> IF cache_key \in DOMAIN cache THEN {cache[cache_key]} ELSE {},
              mtime |-> {remote[file_id].modifiedTime}]
    ELSE [entry |-> {}, mtime |-> {}]

\* The Drive's modifiedTime of the file as the call returns.
After(W, name) ==
    IF name \in DOMAIN StoreIndex
    THEN {W.remote[StoreIndex[name].id].modifiedTime}
    ELSE {}

GetTableCall(name, sel, force_refresh) ==
    \E o \in GetTable(World, name, sel, force_refresh) :
        /\ Becomes(o.W)
        /\ gw' = o.gw
        /\ ret' = [op |-> "get_table", name |-> name, sel |-> sel,
                   force_refresh |-> force_refresh, kind |-> o.kind,
                   dfs |-> IF o.frame = {} THEN EmptyDict
                           ELSE Put(EmptyDict, name, CHOOSE f \in o.frame : TRUE),
                   before |-> Before(name, sel), after |-> After(o.W, name)]

GetTablesCall(names, sel) ==
    \E o \in GetTables(World, names, sel) :
        /\ Becomes(o.W)
        /\ ret' = [op |-> "get_tables", names |-> names, sel |-> sel,
                   kind |-> IF o.raised THEN "raise" ELSE "dict",
                   dfs |-> IF o.raised THEN EmptyDict ELSE o.results]
        /\ gw' = o.gw

JoinTablesCall(left_table, right_table, on, how, sel) ==
    \E o \in JoinTables(World, left_table, right_table, on, how, sel) :
        /\ Becomes(o.W)
        /\ ret' = [op |-> "join_tables", left_table |-> left_table,
                   right_table |-> right_table, on |-> on, how |-> how,
                   sel |-> sel, kind |-> o.kind, err |-> o.err,
                   joined |-> o.joined, dfs |-> EmptyDict]
        /\ gw' = o.gw

ListTablesCall(force_refresh) ==
    \E o \in ListTables(World, force_refresh) :
        /\ Becomes(o.W)
        /\ ret' = [op |-> "list_tables", force_refresh |-> force_refresh,
                   kind |-> o.kind, names |-> o.names, dfs |-> EmptyDict]
        /\ gw' = o.gw

GetMetadataCall(name) ==
    /\ ret' = [op |-> "get_metadata", name |-> name, kind |-> "metadata",
               found |-> GetMetadata(World, name), dfs |-> EmptyDict]
    /\ gw' = <<>>
    /\ UNCHANGED <<now, cache_ttl, sheet_name, remote, cache, file_index,
                   file_index_timestamp, metadata>>

\* The facade calls a caller makes.  One table is asked for with every
\* selector and forced refreshes; both tables are asked for in batches and joins.
get_table ==
    \E sel \in Selectors, force_refresh \in BOOLEAN :
        GetTableCall(NameA, sel, force_refresh)

\* get_table with its defaults: no sheet selector, no forced refresh.
load_table == \E name \in {NameA, NameMissing} : GetTableCall(name, "None", FALSE)

\* The keywords a caller searches for: every name has the first, "a" has the
\* second in another case, no name has the third.
Keywords == {<<>>, <<"A">>, <<"z">>}

SearchTablesCall(keyword) ==
    \E o \in SearchTables(World, keyword) :
        /\ Becomes(o.W)
        /\ ret' = [op |-> "search_tables", keyword |-> keyword,
                   kind |-> o.kind, names |-> o.names, dfs |-> EmptyDict]
        /\ gw' = o.gw

search_tables == \E keyword \in Keywords : SearchTablesCall(keyword)

\* The pairs of names a caller joins: both indexed, or one of them missing.
JoinPairs == {<<NameA, NameB>>, <<NameA, NameMissing>>, <<NameMissing, NameB>>}

\* The batches a caller asks for: up to MaxBatch names, none of them twice.
Batches ==
    {q \in SeqsUpTo(Names, MaxBatch) :
        \A i, j \in 1..Len(q) : i # j => q[i] # q[j]}

get_tables == \E names \in Batches : GetTablesCall(names, "None")

join_tables ==
    \E pair \in JoinPairs, on \in Ons :
        JoinTablesCall(pair[1], pair[2], on, "left", "None")

list_tables == \E force_refresh \in BOOLEAN : ListTablesCall(force_refresh)

clear_cache ==
    /\ Becomes(ClearCache(World))
    /\ ret' = [op |-> "clear_cache", kind |-> "None", dfs |-> EmptyDict]
    /\ gw' = <<>>

get_cache_info ==
    /\ ret' = [op |-> "get_cache_info", kind |-> "info",
               info |-> GetCacheInfo(World), dfs |-> EmptyDict,
               \* the Drive's modifiedTime of each file at the call
               mtime |-> [id \in FileIds |-> remote[id].modifiedTime]]
    /\ gw' = <<>>
    /\ UNCHANGED <<now, cache_ttl, sheet_name, remote, cache, file_index,
                   file_index_timestamp, metadata>>

get_metadata == \E name \in {NameA, NameMissing, <<>>} : GetMetadataCall(name)

\* A caller loading one table, with every selector and forced refreshes, as
\* time passes and the file changes.
Next ==
    \/ Tick
    \/ RemoteModify
    \/ get_table

Spec == Init /\ [][Next]_vars

\* A caller using the whole facade on one table.
NextFacade ==
    \/ Tick
    \/ RemoteModify
    \/ load_table
    \/ list_tables
    \/ clear_cache
    \/ get_cache_info
    \/ get_metadata

SpecFacade == Init /\ [][NextFacade]_vars

\* A caller using the index through every operation that reads it.
NextIndex ==
    \/ Tick
    \/ RemoteModify
    \/ load_table
    \/ list_tables
    \/ search_tables
    \/ clear_cache

SpecIndex == Init /\ [][NextIndex]_vars

\* The default sheets a warehouse is constructed with (the sheet_name of
\* __init__), and the selectors a caller of the spreadsheet passes.
DefaultSheets == {"0", "1"}
SheetSelectors == {"None", "0", "1"}

\* The warehouse as __init__ leaves it when the caller chooses the default sheet.
InitSheets ==
    /\ now = 0
    /\ cache_ttl \in 1..MaxTTL
    /\ sheet_name \in DefaultSheets
    /\ remote = [id \in FileIds |-> [modifiedTime |-> 0, ok |-> TRUE]]
    /\ cache = EmptyDict
    /\ file_index = {}
    /\ file_index_timestamp = {}
    /\ metadata = EmptyDict
    /\ ret = NoCall
    /\ gw = <<>>

\* get_table of the native spreadsheet with a sheet selector.
get_sheet == \E sel \in SheetSelectors : GetTableCall(NameB, sel, FALSE)

\* A caller reading the sheets of the spreadsheet while it is edited.
NextSheets ==
    \/ Tick
    \/ \E ok \in BOOLEAN : RemoteModifyFile("f2", ok)
    \/ get_sheet

SpecSheets == InitSheets /\ [][NextSheets]_vars

\* ------------------------------------------- the index over any store tree
\* The files a folder of a drawn store tree may hold: a csv file, a native
\* spreadsheet of the same derived name, a file with two dots and an
\* upper-case extension, a text file, and a file without a dot whose whole
\* name is a supported extension.
FileKinds ==
    { [name |-> <<"a", ".", "c", "s", "v">>, mimeType |-> CSV_MIME],
      [name |-> <<"a">>, mimeType |-> SHEET_MIME],
      [name |-> <<"a", ".", "b", ".", "C", "S", "V">>, mimeType |-> CSV_MIME],
      [name |-> <<"n", ".", "t", "x", "t">>, mimeType |-> TXT_MIME],
      [name |-> <<"c", "s", "v">>, mimeType |-> TXT_MIME] }
FolderKind == [name |-> <<"s", "u", "b">>, mimeType |-> FOLDER_MIME]

\* The entries of a folder as files().list returns them: each kind with an id
\* of its own (the folder and the position); the folder entry has the id "sub".
EntryIds == [root |-> <<"r1", "r2", "r3", "r4">>, sub |-> <<"s1", "s2", "s3", "s4">>]
Listed(folder_id, kinds) ==
    [i \in 1..Len(kinds) |->
        [id |-> IF kinds[i].mimeType = FOLDER_MIME THEN "sub" ELSE EntryIds[folder_id][i],
         name |-> kinds[i].name, mimeType |-> kinds[i].mimeType]]

\* The store trees: a root folder with at most one subfolder.
Trees ==
    { [root |-> Listed("root", r), sub |-> Listed("sub", u)] :
        r \in {q \in SeqsUpTo(FileKinds \cup {FolderKind}, MaxEntries) :
                  Cardinality({i \in 1..Len(q) : q[i] = FolderKind}) <= 1},
        u \in SeqsUpTo(FileKinds, MaxEntries) }

\* _list_files_recursive over a store tree, from the i-th entry of the folder on.
RECURSIVE ListTree(_, _, _)
ListTree(tree, folder_id, i) ==
    IF i > Len(tree[folder_id]) THEN <<>>
    ELSE LET file == tree[folder_id][i]
             here == IF file.mimeType = FOLDER_MIME
                     THEN ListTree(tree, file.id, 1)
                     ELSE <<file>>
         IN  here \o ListTree(tree, folder_id, i + 1)

\* The files().list calls of a listing of the tree, in order.
RECURSIVE TreeListings(_, _, _)
TreeListings(tree, folder_id, i) ==
    IF i > Len(tree[folder_id]) THEN <<>>
    ELSE LET file == tree[folder_id][i]
             here == IF file.mimeType = FOLDER_MIME
                     THEN <<Call("files.list", file.id, "ok")>>
                          \o TreeListings(tree, file.id, 1)
                     ELSE <<>>
         IN  here \o TreeListings(tree, folder_id, i + 1)

\* A new warehouse over a drawn store tree (remote holds the tree).
InitTree ==
    /\ now = 0
    /\ cache_ttl = MaxTTL
    /\ sheet_name = "0"
    /\ remote \in Trees
    /\ cache = EmptyDict
    /\ file_index = {}
    /\ file_index_timestamp = {}
    /\ metadata = EmptyDict
    /\ ret = NoCall
    /\ gw = <<>>

\* _build_file_index on a warehouse without an index, the gateway answering.
build_file_index ==
    /\ file_index = {}
    /\ LET all_files == ListTree(remote, RootFolder, 1)
           built == IndexFiles(all_files, EmptyDict)
       IN  /\ file_index' = {built}
           /\ file_index_timestamp' = {now}
           /\ ret' = [op |-> "_build_file_index", kind |-> "index",
                      all_files |-> all_files, index |-> built, dfs |-> EmptyDict]
           /\ gw' = <<Call("files.list", RootFolder, "ok")>>
                    \o TreeListings(remote, RootFolder, 1)
    /\ UNCHANGED <<now, cache_ttl, sheet_name, remote, cache, metadata>>

SpecTree == InitTree /\ [][build_file_index]_vars

\* ------------------------------------------------- the csv branch of _read_file
seps == <<";", ",", "|">>
encodings == <<"utf-8", "latin-1">>

\* What pd.read_csv(buffer, encoding=enc, sep=sep) does with a payload: it
\* raises, or gives a dataset of some number of columns.
ParseOutcomes ==
    {[raises |-> TRUE, columns |-> 0]}
    \cup {[raises |-> FALSE, columns |-> n] : n \in 1..MaxColumns}

\* The payloads of a csv file, each given by what every (encoding, delimiter)
\* combination makes of it.
CsvPayloads ==
    [{encodings[e] : e \in 1..Len(encodings)} \X {seps[s] : s \in 1..Len(seps)}
        -> ParseOutcomes]

\* A variant of the loops that accepts a parse of any number of columns.
RECURSIVE TryCsvAnyColumns(_, _, _, _)
TryCsvAnyColumns(payload, e, s, tried) ==
    IF e > Len(encodings) THEN [df |-> {}, tried |-> tried]
    ELSE IF s > Len(seps) THEN TryCsvAnyColumns(payload, e + 1, 1, tried)
    ELSE LET enc == encodings[e]
             sep == seps[s]
             df_test == payload[<<enc, sep>>]
         IN  IF ~df_test.raises
             THEN [df |-> {[encoding |-> enc, sep |-> sep, columns |-> df_test.columns]},
                   tried |-> Append(tried, <<enc, sep>>)]
             ELSE TryCsvAnyColumns(payload, e, s + 1, Append(tried, <<enc, sep>>))

\* The two loops of the csv branch from encoding e and delimiter s on, df still
\* None: [df, tried], df {} for None, tried the read_csv calls made so far.
\* A parse of more than one column ends both loops; an exception is passed over.
RECURSIVE TryCsv(_, _, _, _)
TryCsv(payload, e, s, tried) ==
    IF e > Len(encodings) THEN [df |-> {}, tried |-> tried]
    ELSE IF s > Len(seps) THEN TryCsv(payload, e + 1, 1, tried)
    ELSE LET enc == encodings[e]
             sep == seps[s]
             df_test == payload[<<enc, sep>>]
         IN  IF ~df_test.raises /\ df_test.columns > 1
             THEN [df |-> {[encoding |-> enc, sep |-> sep, columns |-> df_test.columns]},
                   tried |-> Append(tried, <<enc, sep>>)]
             ELSE TryCsv(payload, e, s + 1, Append(tried, <<enc, sep>>))

\* A warehouse whose file f1 (a.csv) holds a drawn payload.
InitCsv ==
    /\ now = 0
    /\ cache_ttl = MaxTTL
    /\ sheet_name = "0"
    /\ remote \in [{"f1"} -> CsvPayloads]
    /\ cache = EmptyDict
    /\ file_index = {}
    /\ file_index_timestamp = {}
    /\ metadata = EmptyDict
    /\ ret = NoCall
    /\ gw = <<>>

\* _read_file of the csv file on an empty cache, the download answering:
\* the csv branch, then `if df is None: return None`.
read_csv ==
    /\ ret.op = "init"
    /\ LET r == TryCsv(remote["f1"], 1, 1, <<>>)
       IN  ret' = [op |-> "_read_file", kind |-> IF r.df = {} THEN "None" ELSE "df",
                   df |-> r.df, tried |-> r.tried, dfs |-> EmptyDict]
    /\ gw' = <<Call("get_media", "f1", "ok")>>
    /\ UNCHANGED <<now, cache_ttl, sheet_name, remote, cache, file_index,
                   file_index_timestamp, metadata>>

SpecCsv == InitCsv /\ [][read_csv]_vars

\* ------------------------------------------------ the json branch of _read_file
\* What json.load gives: a list of some length, a mapping (its items in
\* insertion order, and whether its 'type' is 'FeatureCollection'), or a scalar.
\* A value of a mapping is a scalar or a list.
JsonList(n) == [is |-> "list", len |-> n]
JsonScalar == [is |-> "scalar", len |-> 0]
JsonKeys == <<"k1", "k2", "k3", "k4">>
ItemValues == {JsonScalar} \cup {JsonList(n) : n \in 0..MaxRows}
JsonItems ==
    { [i \in 1..Len(q) |-> [key |-> JsonKeys[i], value |-> q[i]]] :
        q \in SeqsUpTo(ItemValues, MaxKeys) }
JsonData ==
    {[is |-> "list", len |-> n, fc |-> FALSE, items |-> <<>>] : n \in 0..MaxRows}
    \cup {[is |-> "scalar", len |-> 0, fc |-> FALSE, items |-> <<>>]}
    \cup {[is |-> "dict", len |-> 0, fc |-> fc, items |-> items] :
             fc \in BOOLEAN, items \in JsonItems}

\* The datasets of the branch: gpd.read_file(buffer), pd.json_normalize of a
\* list (the top-level one, key "", or the one under a key) and
\* pd.DataFrame([data]), one row.
GeoFrame == [by |-> "gpd.read_file", key |-> "", rows |-> 0]
Normalized(key, list) == [by |-> "pd.json_normalize", key |-> key, rows |-> list.len]
SingleRow == [by |-> "pd.DataFrame", key |-> "", rows |-> 1]

\* A variant of the json branch that takes the first list value, empty or not.
ReadJsonFirstList(data) ==
    IF data.is = "dict" /\ data.fc THEN GeoFrame
    ELSE IF data.is = "list" THEN Normalized("", data)
    ELSE IF data.is = "dict"
    THEN LET lists == {i \in 1..Len(data.items) : data.items[i].value.is = "list"}
         IN  IF lists # {}
             THEN LET i == CHOOSE x \in lists : \A y \in lists : x <= y
                  IN  Normalized(data.items[i].key, data.items[i].value)
             ELSE SingleRow
    ELSE SingleRow

\* The json branch: the dataset it makes of the loaded data.
ReadJson(data) ==
    IF data.is = "dict" /\ data.fc THEN GeoFrame
    ELSE IF data.is = "list" THEN Normalized("", data)
    ELSE IF data.is = "dict"
    THEN IF \E i \in 1..Len(data.items) : data.items[i].value.is = "list"
         THEN LET found == {i \in 1..Len(data.items) :
                              /\ data.items[i].value.is = "list"
                              /\ data.items[i].value.len > 0}
              IN  IF found # {}
                  THEN LET i == CHOOSE x \in found : \A y \in found : x <= y
                       IN  Normalized(data.items[i].key, data.items[i].value)
                  ELSE SingleRow
         ELSE SingleRow
    ELSE SingleRow

\* A warehouse whose json file j1 holds drawn data.
InitJson ==
    /\ now = 0
    /\ cache_ttl = MaxTTL
    /\ sheet_name = "0"
    /\ remote \in [{"j1"} -> JsonData]
    /\ cache = EmptyDict
    /\ file_index = {}
    /\ file_index_timestamp = {}
    /\ metadata = EmptyDict
    /\ ret = NoCall
    /\ gw = <<>>

\* _read_file of the json file on an empty cache, the download answering.
read_json ==
    /\ ret.op = "init"
    /\ ret' = [op |-> "_read_file", kind |-> "df", df |-> {ReadJson(remote["j1"])},
               dfs |-> EmptyDict]
    /\ gw' = <<Call("get_media", "j1", "ok")>>
    /\ UNCHANGED <<now, cache_ttl, sheet_name, remote, cache, file_index,
                   file_index_timestamp, metadata>>

SpecJson == InitJson /\ [][read_json]_vars

\* The warehouse with the longest TTL of the model.
InitLongTTL == Init /\ cache_ttl = MaxTTL

\* The warehouse as __init__ leaves it for a TTL of any number of minutes.
InitTtl ==
    /\ now = 0
    /\ cache_ttl \in 0..MaxMinutes
    /\ sheet_name = "0"
    /\ remote = [id \in FileIds |-> [modifiedTime |-> 0, ok |-> TRUE]]
    /\ cache = EmptyDict
    /\ file_index = {}
    /\ file_index_timestamp = {}
    /\ metadata = EmptyDict
    /\ ret = NoCall
    /\ gw = <<>>

\* A caller asking a new warehouse for its cache info.
SpecTtl == InitTtl /\ [][get_cache_info]_vars

\* The selectors a caller tries on the spreadsheet of two sheets: ints inside
\* and outside 0..1, negative ones among them, a title it has and one it has not.
RangeSelectors == {"-3", "-1", "0", "1", "2", "'P1'", "'X'"}

select_sheet == \E sel \in RangeSelectors : GetTableCall(NameB, sel, FALSE)

\* A caller selecting sheets of the spreadsheet while it is edited.
NextSelect ==
    \/ \E ok \in BOOLEAN : RemoteModifyFile("f2", ok)
    \/ select_sheet

SpecSelect == InitLongTTL /\ [][NextSelect]_vars

\* A caller loading both tables in batches, within one minute.
NextBatch ==
    \/ RemoteModifyAny
    \/ get_tables

SpecBatch == InitLongTTL /\ [][NextBatch]_vars

\* A caller joining the tables, within one minute.
NextJoin ==
    \/ RemoteModifyAny
    \/ join_tables

SpecJoin == InitLongTTL /\ [][NextJoin]_vars

\* A caller changing, in place, the datasets it is handed, within one minute.
NextCopy ==
    \/ RemoteModify
    \/ CallerMutate
    \/ get_table

SpecCopy == InitLongTTL /\ [][NextCopy]_vars

\* ============================================================ properties
\* The vocabulary of the properties.  A fetch is a gateway call that retrieves
\* content (a download, or the two calls that read a spreadsheet).
IsFetch(c) == c[1] \in {"get_media", "sheets.get", "values.get"}
Fetches(g) == {i \in 1..Len(g) : IsFetch(g[i])}
ListingFailed(g) == \E i \in 1..Len(g) : g[i][1] = "files.list" /\ g[i][3] = "error"
NotListing(c) == c[1] # "files.list"
\* The gateway calls of a facade call once the index has answered.
Body(g) == SelectSeq(g, NotListing)
FileOf(name) == StoreIndex[name].id
KeyOf(name, sel) == CacheKey(FileOf(name), sel, World)
Range(q) == {q[i] : i \in 1..Len(q)}

\* A step that changes ret, gw, the cache, the index or the metadata is a
\* facade call, the one that ret' records (the clock and the store's editors
\* change none of them); a step that changes none of them is a facade call
\* only if the call can take it.
Quiet == UNCHANGED <<ret, gw, cache, file_index, file_index_timestamp, metadata>>

\* The step is the call get_table(NameA, sel, force_refresh) and the index
\* answered it (the listing, when there was one, did not raise).
GetTableStep(sel, force_refresh) ==
    /\ ret'.op = "get_table"
    /\ ret'.name = NameA
    /\ ret'.sel = sel
    /\ ret'.force_refresh = force_refresh
    /\ ret'.kind # "raise"
    /\ Quiet => now' = now /\ GetTableCall(NameA, sel, force_refresh)

\* The key of the call has an entry younger than the TTL / as old as the TTL.
InWindow(sel) ==
    /\ KeyOf(NameA, sel) \in DOMAIN cache
    /\ now - cache[KeyOf(NameA, sel)].timestamp < cache_ttl
Expired(sel) ==
    /\ KeyOf(NameA, sel) \in DOMAIN cache
    /\ now - cache[KeyOf(NameA, sel)].timestamp >= cache_ttl

\* The remote fingerprint of the file is what it was when the entry was
\* loaded: the modifiedTime the entry's fingerprint was made of or, when the
\* fingerprint holds none, the modifiedTime of the content that was parsed.
Unchanged(sel) ==
    LET e == cache[KeyOf(NameA, sel)]
    IN  IF e.hash.mt = {} THEN e.df.ver = remote[FileOf(NameA)].modifiedTime
        ELSE e.hash.mt = {remote[FileOf(NameA)].modifiedTime}

\* The call is a hit: the cached content is returned and nothing is fetched.
Hit(sel) ==
    /\ ret'.kind = "df"
    /\ Fetches(gw') = {}
    /\ ret'.dfs[NameA].df = cache[KeyOf(NameA, sel)].df
    /\ cache' = cache

\* The call loaded the file again: it fetched; a dataset it returns is parsed
\* from the payload the store held at the call and is the new cache entry.
Reloaded(sel) ==
    /\ Fetches(gw') # {}
    /\ ret'.kind = "df" =>
          /\ ret'.dfs[NameA].df.ver = remote[FileOf(NameA)].modifiedTime
          /\ KeyOf(NameA, sel) \in DOMAIN cache'
          /\ cache'[KeyOf(NameA, sel)].df = ret'.dfs[NameA].df
          /\ cache'[KeyOf(NameA, sel)].timestamp = now

\* The metadata lookup that checks the entry of the call failed.
CheckFailed == Body(gw')[1] = Call("files.get", FileOf(NameA), "error")

ChangedSince(sel) ==
    /\ ret.op = "get_table"
    /\ ret.name = NameA
    /\ ret.sel = sel
    /\ ret.kind = "df"
    /\ ret.after # {remote[FileOf(NameA)].modifiedTime}

\* C2, as it is stated: when the modifiedTime changed between two get_table
\* calls for a key, both inside the TTL window, the second call fetches again,
\* overwrites the entry with what it parsed and does not return the dataset the
\* first call cached.
C2_AsStated ==
    [][\A sel \in Selectors, force_refresh \in BOOLEAN :
          ChangedSince(sel) /\ InWindow(sel) /\ GetTableStep(sel, force_refresh)
          => /\ Fetches(gw') # {}
             /\ KeyOf(NameA, sel) \in DOMAIN cache'
             /\ cache'[KeyOf(NameA, sel)].timestamp = now
             /\ cache'[KeyOf(NameA, sel)].df.ver = remote[FileOf(NameA)].modifiedTime
             /\ ret'.kind = "df" =>
                   ret'.dfs[NameA].df.ver # cache[KeyOf(NameA, sel)].df.ver]_vars

\* C2: when the modifiedTime changed between two get_table calls for a key,
\* both inside the TTL window, the second call fetches again and never returns
\* the dataset the first call cached; it overwrites the entry when the fetch
\* and the parse give a dataset, and leaves it (or, forced, leaves none) when
\* they do not.  The exception: an entry stored under an id-only fingerprint
\* whose check fails again is served as it is.
C2_ReloadOnChange ==
    [][\A sel \in Selectors, force_refresh \in BOOLEAN :
          ChangedSince(sel) /\ InWindow(sel) /\ GetTableStep(sel, force_refresh)
          => IF ~force_refresh /\ cache[KeyOf(NameA, sel)].hash.mt = {} /\ CheckFailed
             THEN Hit(sel)
             ELSE /\ Reloaded(sel)
                  /\ ret'.kind = "df" =>
                        ret'.dfs[NameA].df.ver # cache[KeyOf(NameA, sel)].df.ver
                  /\ ret'.kind = "None" =>
                        IF force_refresh THEN KeyOf(NameA, sel) \notin DOMAIN cache'
                        ELSE cache' = cache]_vars

\* A call inside the TTL of an entry stored when the modifiedTime was 0, made
\* when it is 1: the check answered, version 1 was fetched and is the entry.
C2_Witness ==
    /\ ret.op = "get_table"
    /\ ret.kind = "df"
    /\ ~ret.force_refresh
    /\ Body(gw)[1] = Call("files.get", FileOf(NameA), "ok")
    /\ Fetches(gw) # {}
    /\ \E e \in ret.before.entry :
          /\ now - e.timestamp < cache_ttl
          /\ e.hash.mt = {0}
          /\ ret.before.mtime = {1}
    /\ ret.dfs[NameA].df.ver = 1
    /\ cache[KeyOf(NameA, ret.sel)].df.ver = 1

\* C3, as it is stated: a get_table call for a key whose entry has reached the
\* TTL still starts with the fingerprint check, and is a hit when the remote
\* fingerprint is unchanged.
C3_AsStated ==
    [][\A sel \in Selectors :
          Expired(sel) /\ GetTableStep(sel, FALSE)
          => /\ Body(gw')[1][1] = "files.get"
             /\ Unchanged(sel) => Hit(sel)]_vars

\* C3: a get_table call for a key whose entry has reached the TTL makes no
\* fingerprint check: it fetches the file at once, whatever the fingerprint,
\* and the file is loaded again (an entry that cannot be replaced stays).
C3_ExpiredIsMiss ==
    [][\A sel \in Selectors :
          Expired(sel) /\ GetTableStep(sel, FALSE)
          => /\ IsFetch(Body(gw')[1])
             /\ Reloaded(sel)
             /\ ret'.kind = "None" => cache' = cache]_vars

\* A call for an entry as old as the TTL whose fingerprint is the remote one:
\* the file was fetched again at once.
C3_Witness ==
    /\ ret.op = "get_table"
    /\ ret.kind = "df"
    /\ ~ret.force_refresh
    /\ IsFetch(Body(gw)[1])
    /\ \E e \in ret.before.entry :
          /\ cache[KeyOf(NameA, ret.sel)].timestamp - e.timestamp >= cache_ttl
          /\ e.hash.mt = ret.before.mtime

\* C4: get_table with force_refresh fetches the file at once (no fingerprint
\* check) whatever entry its key has; a dataset it returns is parsed from the
\* payload the store held at the call and becomes the entry of the key, and
\* when the load fails the key has no entry; every other entry is unchanged.
C4_ForcedReload ==
    [][\A sel \in Selectors :
          GetTableStep(sel, TRUE)
          => /\ IsFetch(Body(gw')[1])
             /\ Reloaded(sel)
             /\ ret'.kind = "None" => KeyOf(NameA, sel) \notin DOMAIN cache'
             /\ DOMAIN cache' \subseteq DOMAIN cache \cup {KeyOf(NameA, sel)}
             /\ \A k \in DOMAIN cache \ {KeyOf(NameA, sel)} :
                   k \in DOMAIN cache' /\ cache'[k] = cache[k]]_vars

\* A forced call for a key whose entry was inside the TTL with the remote
\* fingerprint, while the other key has an entry too.
C4_Witness ==
    /\ ret.op = "get_table"
    /\ ret.kind = "df"
    /\ ret.force_refresh
    /\ Fetches(gw) # {}
    /\ \E e \in ret.before.entry :
          /\ cache[KeyOf(NameA, ret.sel)].timestamp - e.timestamp < cache_ttl
          /\ e.hash.mt = ret.before.mtime
    /\ \E k \in DOMAIN cache : k # KeyOf(NameA, ret.sel)

\* C5: no dataset handed to a caller is the object a cache entry holds, so no
\* change a caller makes to it shows in the cache, from which later calls are
\* served.
C5_Independent ==
    /\ \A name \in DOMAIN ret.dfs : ~ret.dfs[name].shared
    /\ \A k \in DOMAIN cache : ~cache[k].df.dirty

\* The caller changed a dataset that a hit handed out; the entry is as it was.
C5_Witness ==
    /\ ret.op = "get_table"
    /\ ret.kind = "df"
    /\ Fetches(gw) = {}
    /\ ret.dfs[NameA].df.dirty
    /\ ret.before.entry # {}
    /\ ~cache[KeyOf(NameA, ret.sel)].df.dirty

\* The file of an indexed name parses, as the store holds it.
Parses(name) == name \in DOMAIN StoreIndex /\ remote[FileOf(name)].ok
\* The file of an indexed name does not parse and no entry holds it.
CannotLoad(name) ==
    /\ name \in DOMAIN StoreIndex
    /\ ~remote[FileOf(name)].ok
    /\ KeyOf(name, "None") \notin DOMAIN cache
\* A fetch of the file of an indexed name raised in the calls g.
FetchFailed(g, name) ==
    \E i \in Fetches(g) : g[i][2] = FileOf(name) /\ g[i][3] = "error"

\* C6: get_tables raises only when the listing of the index raises.  Otherwise
\* it returns a mapping whose keys are names of the batch that are indexed; a
\* name that is not indexed, or whose file does not parse and is not cached, is
\* left out; a name whose file parses is in the mapping, with the dataset of
\* that file, unless a gateway error stopped its fetch; and the files are
\* loaded in the order of the batch.
C6_BatchOmitsFailures ==
    [][\A names \in Batches :
          /\ ret'.op = "get_tables"
          /\ ret'.names = names
          /\ Quiet => now' = now /\ GetTablesCall(names, "None")
          => /\ ret'.kind = "raise" => ListingFailed(gw')
             /\ ret'.kind = "dict" =>
                   /\ DOMAIN ret'.dfs \subseteq Range(names) \cap DOMAIN StoreIndex
                   /\ \A i \in 1..Len(names) :
                         /\ CannotLoad(names[i]) => names[i] \notin DOMAIN ret'.dfs
                         /\ Parses(names[i]) /\ ~FetchFailed(gw', names[i])
                            => /\ names[i] \in DOMAIN ret'.dfs
                               /\ ret'.dfs[names[i]].df.src = FileOf(names[i])
                   /\ \A i, j \in 1..Len(names) :
                         i < j /\ names[i] \in DOMAIN StoreIndex
                               /\ names[j] \in DOMAIN StoreIndex
                         => \A x, y \in 1..Len(gw') :
                               gw'[x][2] = FileOf(names[i]) /\ gw'[y][2] = FileOf(names[j])
                               => x < y]_vars

\* A batch of a name that is not indexed and an indexed one returned the
\* second alone.
C6_Witness ==
    /\ ret.op = "get_tables"
    /\ ret.kind = "dict"
    /\ ret.names = <<NameMissing, NameB>>
    /\ DOMAIN ret.dfs = {NameB}

\* The step is the call join_tables(left_table, right_table, on).
JoinTablesStep(left_table, right_table, on) ==
    /\ ret'.op = "join_tables"
    /\ ret'.left_table = left_table
    /\ ret'.right_table = right_table
    /\ ret'.on = on
    /\ Quiet => now' = now /\ JoinTablesCall(left_table, right_table, on, "left", "None")

\* C7: join_tables either raises or returns a joined dataset, never None.  It
\* raises when a side is not indexed, when the file of a side does not parse
\* and is not cached, and when a fetch raised; a joined dataset is made of the
\* datasets of the two files, both of them indexed and loaded.
C7_JoinNeedsBothSides ==
    [][\A pair \in JoinPairs, on \in Ons :
          JoinTablesStep(pair[1], pair[2], on)
          => /\ ret'.kind \in {"raise", "df"}
             /\ (ret'.kind = "df") <=> (ret'.joined # {})
             /\ \A i \in 1..2 :
                   /\ pair[i] \notin DOMAIN StoreIndex => ret'.kind = "raise"
                   /\ CannotLoad(pair[i]) => ret'.kind = "raise"
             /\ (\E i \in Fetches(gw') : gw'[i][3] = "error") => ret'.kind = "raise"
             /\ ret'.kind = "df" =>
                   /\ \A i \in 1..2 :
                         /\ pair[i] \in DOMAIN StoreIndex
                         /\ KeyOf(pair[i], "None") \in DOMAIN cache'
                   /\ \A m \in ret'.joined :
                         /\ m.left.src = FileOf(pair[1])
                         /\ m.right.src = FileOf(pair[2])]_vars

\* A join whose left table loaded and whose right table is not indexed raised
\* the ValueError.
C7_Witness ==
    /\ ret.op = "join_tables"
    /\ ret.kind = "raise"
    /\ ret.err = "ValueError"
    /\ ret.left_table = NameA
    /\ ret.right_table = NameMissing
    /\ KeyOf(NameA, "None") \in DOMAIN cache
    /\ Fetches(gw) # {}

\* q is in the order sorted() gives, without a name twice.
InOrder(q) == \A i, j \in 1..Len(q) : i < j => Less(q[i], q[j])

\* C8: list_tables, forced or not, makes no gateway call but listings, leaves
\* the cache and the metadata as they are, and returns the names of the index
\* (the names of the store's supported files) in sorted order.
C8_ListTablesReadsIndexOnly ==
    [][\A force_refresh \in BOOLEAN :
          /\ ret'.op = "list_tables"
          /\ ret'.force_refresh = force_refresh
          /\ Quiet => now' = now /\ ListTablesCall(force_refresh)
          => /\ \A i \in 1..Len(gw') : gw'[i][1] = "files.list"
             /\ cache' = cache
             /\ metadata' = metadata
             /\ ret'.kind = "names" =>
                   /\ InOrder(ret'.names)
                   /\ Range(ret'.names) = DOMAIN StoreIndex
                   /\ \E x \in file_index' : DOMAIN x = Range(ret'.names)]_vars

\* A forced list_tables rebuilt the index and returned the names while the
\* cache and the metadata hold a table.
C8_Witness ==
    /\ ret.op = "list_tables"
    /\ ret.force_refresh
    /\ ret.kind = "names"
    /\ Len(ret.names) = 2
    /\ gw # <<>>
    /\ cache # EmptyDict
    /\ metadata # EmptyDict

\* The step is a table access: a get_table or a list_tables.
TableAccess ==
    /\ ret'.op \in {"get_table", "list_tables"}
    /\ Quiet => /\ now' = now
                /\ \/ \E name \in {NameA, NameMissing} : GetTableCall(name, "None", FALSE)
                   \/ \E force_refresh \in BOOLEAN : ListTablesCall(force_refresh)

\* C9: clear_cache leaves no cache entry and no index; a get_cache_info that
\* follows it reports total_entries = 0 and indexed_files = 0; and the table
\* access that follows it starts with a listing of the root folder and, when
\* no listing raises, leaves an index built at that time.
C9_ClearThenInfo ==
    [][/\ ret'.op = "clear_cache" /\ clear_cache
          => cache' = EmptyDict /\ file_index' = {} /\ file_index_timestamp' = {}
       /\ ret.op = "clear_cache" /\ ret'.op = "get_cache_info" /\ get_cache_info
          => /\ ret'.info.total_entries = 0
             /\ ret'.info.indexed_files = 0
       /\ ret.op = "clear_cache" /\ TableAccess
          => /\ gw' # <<>>
             /\ gw'[1][1] = "files.list"
             /\ gw'[1][2] = RootFolder
             /\ ret'.kind # "raise" =>
                   /\ file_index_timestamp' = {now}
                   /\ \E x \in file_index' : DOMAIN x = DOMAIN StoreIndex]_vars

\* get_cache_info reports no entry and no indexed file in a warehouse that
\* has loaded a table.
C9_Witness ==
    /\ ret.op = "get_cache_info"
    /\ ret.info.total_entries = 0
    /\ ret.info.indexed_files = 0
    /\ metadata # EmptyDict

\* C10, as it is stated: after clear_cache the metadata collection is empty.
C10_AsStated == ret.op = "clear_cache" => metadata = EmptyDict

\* C10: clear_cache resets the cache and the index and leaves the metadata as
\* it is, so the get_metadata that follows it returns the record of a table
\* loaded before the clear.
C10_ClearKeepsMetadata ==
    [][/\ ret'.op = "clear_cache" /\ clear_cache
          => /\ metadata' = metadata
             /\ cache' = EmptyDict
             /\ file_index' = {}
             /\ file_index_timestamp' = {}
       /\ \A name \in DOMAIN metadata :
             /\ ret.op = "clear_cache"
             /\ ret'.op = "get_metadata"
             /\ ret'.name = name
             /\ GetMetadataCall(name)
             => ret'.found = {metadata[name]}]_vars

\* get_metadata returned the record of a table in a warehouse whose cache and
\* index have been cleared.
C10_Witness ==
    /\ ret.op = "get_metadata"
    /\ ret.name = NameA
    /\ ret.found # {}
    /\ cache = EmptyDict
    /\ file_index = {}

\* The step is a get_cache_info.
GetCacheInfoStep == ret'.op = "get_cache_info" /\ get_cache_info

\* The entries younger than the TTL, and those of them whose fingerprint is
\* the one the remote file has now.
YoungEntries == {k \in DOMAIN cache : now - cache[k].timestamp < cache_ttl}
MatchingEntries ==
    {k \in YoungEntries : cache[k].hash.mt = {remote[k[1]].modifiedTime}}

\* C11, as it is stated: get_cache_info counts an entry valid exactly when it
\* is younger than the TTL and its fingerprint is the one recomputed from the
\* remote metadata.
C11_AsStated ==
    [][GetCacheInfoStep
       => ret'.info.valid_entries = Cardinality(MatchingEntries)]_vars

\* C11: get_cache_info counts an entry valid exactly when it is younger than
\* the TTL, whatever its fingerprint: it makes no gateway call, and the
\* entries it counts expired are the others.
C11_ValidByTTLOnly ==
    [][GetCacheInfoStep
       => /\ ret'.info.valid_entries = Cardinality(YoungEntries)
          /\ ret'.info.total_entries = Cardinality(DOMAIN cache)
          /\ ret'.info.expired_entries
                = Cardinality(DOMAIN cache) - Cardinality(YoungEntries)
          /\ gw' = <<>>]_vars

\* get_cache_info counted as valid an entry inside the TTL whose fingerprint
\* was made of a modifiedTime that the file no longer had at the call.
C11_Witness ==
    /\ ret.op = "get_cache_info"
    /\ ret.info.valid_entries = 1
    /\ ret.info.total_entries = 1
    /\ \E k \in DOMAIN cache :
          /\ cache[k].hash.mt = {0}
          /\ ret.mtime[k[1]] = 1

\* A metadata lookup of the call failed; the last one (the lookup that makes
\* the fingerprint to store, after a fetch) failed.
LookupFailed(g) == \E i \in 1..Len(g) : g[i][1] = "files.get" /\ g[i][3] = "error"
StoreLookupFailed(g) ==
    /\ Fetches(g) # {}
    /\ g[Len(g)] = Call("files.get", FileOf(NameA), "error")
\* A fetch of the call raised.
AnyFetchFailed(g) == \E i \in Fetches(g) : g[i][3] = "error"

\* C12: get_table raises only when the index listing raises, never for a
\* failed metadata lookup.  A call in which a lookup failed returns a dataset
\* whenever the cached entry is served or the file is fetched without error
\* and parses; a failed lookup when storing stores the id-only fingerprint; and
\* an entry under the id-only fingerprint, inside its TTL, whose check fails
\* again is served as a hit.
C12_LookupFailureFallsBack ==
    [][\A sel \in Selectors, force_refresh \in BOOLEAN :
          /\ ret'.op = "get_table"
          /\ ret'.name = NameA
          /\ ret'.sel = sel
          /\ ret'.force_refresh = force_refresh
          /\ Quiet => now' = now /\ GetTableCall(NameA, sel, force_refresh)
          => /\ ret'.kind = "raise" => ListingFailed(gw') /\ ~LookupFailed(gw')
             /\ LookupFailed(gw') /\ Parses(NameA) /\ ~AnyFetchFailed(gw')
                => ret'.kind = "df"
             /\ StoreLookupFailed(gw')
                => /\ ret'.kind = "df"
                   /\ cache'[KeyOf(NameA, sel)].hash = [id |-> FileOf(NameA), mt |-> {}]
                   /\ cache'[KeyOf(NameA, sel)].df = ret'.dfs[NameA].df
             /\ /\ ~force_refresh
                /\ InWindow(sel)
                /\ cache[KeyOf(NameA, sel)].hash.mt = {}
                /\ ~ListingFailed(gw')
                /\ CheckFailed
                => Hit(sel)]_vars

\* An entry stored under the id-only fingerprint was served, at a later minute
\* inside its TTL, by a call whose metadata lookup failed.
C12_Witness ==
    /\ ret.op = "get_table"
    /\ ret.kind = "df"
    /\ ~ret.force_refresh
    /\ Body(gw) = <<Call("files.get", FileOf(NameA), "error")>>
    /\ \E e \in ret.before.entry :
          /\ e.hash.mt = {}
          /\ e.timestamp < now
          /\ now - e.timestamp < cache_ttl
          /\ ret.dfs[NameA].df = e.df

\* The step is the call get_table(name) with its defaults.
LoadTableStep(name) ==
    /\ ret'.op = "get_table"
    /\ ret'.name = name
    /\ Quiet => now' = now /\ GetTableCall(name, "None", FALSE)

\* The fields the Metadata Record is documented with.
MetadataFields ==
    {"file_name", "file_type", "is_geospatial", "crs", "shape", "columns",
     "modified_time", "loaded_at"}

\* C13: after a get_table that returns a dataset, the metadata record of the
\* name has every documented field (display name, type label, geospatial flag,
\* CRS, shape, columns, remote modified-time, load timestamp), written by that
\* call; a get_table that returns None leaves the metadata as it was.
C13_MetadataRecordComplete ==
    [][\A name \in {NameA, NameMissing} :
          LoadTableStep(name)
          => /\ ret'.kind = "df" =>
                   /\ name \in DOMAIN metadata'
                   /\ MetadataFields \subseteq DOMAIN metadata'[name]
                   /\ metadata'[name].shape = ret'.dfs[name].df.shape
                   /\ metadata'[name].columns = ret'.dfs[name].df.columns
                   /\ metadata'[name].loaded_at = now
             /\ ret'.kind = "None" => metadata' = metadata]_vars


\* C14: a listing error raised by any files().list call of the recursive index
\* build reaches the caller of list_tables / get_table as a raise, and the call
\* leaves the stored index and its build time (or their absence) exactly as
\* they were, together with the cache and the metadata; a call raises only
\* when a listing call failed.
C14_ListingErrorPropagates ==
    [][/\ ListingFailed(gw')
          => /\ ret'.op \in {"list_tables", "get_table"}
             /\ ret'.kind = "raise"
             /\ UNCHANGED <<file_index, file_index_timestamp, cache, metadata>>
       /\ (ret'.op \in {"list_tables", "get_table"} /\ ret'.kind = "raise")
          => ListingFailed(gw')]_vars

\* A get_table raised because the listing of the subfolder failed after the
\* root's listing had succeeded, and the index of an earlier build is still stored.
C14_Witness ==
    /\ ret.op = "get_table"
    /\ ret.kind = "raise"
    /\ Len(gw) = 2
    /\ gw[1][3] = "ok"
    /\ gw[2][3] = "error"
    /\ file_index = {StoreIndex}
    /\ \E t \in file_index_timestamp : now - t >= cache_ttl


\* The step is a call of an operation that reads the index.
IndexAccessStep ==
    /\ ret'.op \in {"list_tables", "get_table", "search_tables"}
    /\ ~Quiet
ForceRefreshOf(r) == r.op = "list_tables" /\ r.force_refresh
\* An index is stored (built, and not cleared since) and less than the TTL
\* has elapsed since its build.
IndexFresh ==
    /\ file_index # {}
    /\ \E t \in file_index_timestamp : now - t < cache_ttl
Listings(g) == {i \in 1..Len(g) : g[i][1] = "files.list"}
\* The index a listing of the store gives now.
LiveIndex == IndexFiles(ListFilesRecursive(RootFolder, remote), EmptyDict)

GetSheetStep(sel) ==
    /\ ret'.op = "get_table"
    /\ ret'.name = NameB
    /\ ret'.sel = sel
    /\ Quiet => now' = now /\ GetTableCall(NameB, sel, FALSE)
\* The effective sub-selection of a request: the explicit selector, the
\* warehouse default when none is given.
Effective(sel) == IF sel # "None" THEN sel ELSE sheet_name

\* C16: a get_table of a file with the effective sub-selection s1 (the explicit
\* selector, or the warehouse default when none is given) that returns a
\* dataset returns the dataset of s1, never the one cached for another
\* sub-selection, also when the explicit selector is index 0 and the
\* default is another sheet.
C16_KeyedBySubSelection ==
    [][\A sel \in SheetSelectors :
          (GetSheetStep(sel) /\ ret'.kind = "df")
          => {ret'.dfs[NameB].df.sheet} = ResolveSheet(Effective(sel), SheetTitles)]_vars


\* The extension of a file name: what follows its last dot, compared without
\* regard to case; a name without a dot has none.
Extension(name) == IF LastDot(name) = 0 THEN {} ELSE {Lower(SplitLast(name))}
\* The name a file derives, {} when it derives none.
DerivedName(file) ==
    IF file.mimeType = FOLDER_MIME THEN {}
    ELSE IF file.mimeType = SHEET_MIME THEN {file.name}
    ELSE IF Extension(file.name) \cap SupportedExt # {}
    THEN {SubSeq(file.name, 1, LastDot(file.name) - 1)}
    ELSE {}
\* Every entry of the tree's folders (the subfolder's, when the root lists it).
TreeEntries(tree) ==
    Range(tree.root) \cup
    IF \E i \in 1..Len(tree.root) : tree.root[i].mimeType = FOLDER_MIME
    THEN Range(tree.sub) ELSE {}
\* The last file, in listing order, that derives the name.
LastDeriving(all_files, name) ==
    all_files[CHOOSE i \in 1..Len(all_files) :
                 /\ name \in DerivedName(all_files[i])
                 /\ \A j \in (i + 1)..Len(all_files) : name \notin DerivedName(all_files[j])]

\* C17: after an index build over a store tree the index has exactly one entry
\* per derived name: the names are those of the non-folder files that are
\* native spreadsheets (the display name) or have an extension among csv, xlsx,
\* xls, json, geojson (the file name without its final extension); folders and
\* other files give no entry; the entry of a name several files derive is the
\* file listed last.
C17_IndexNames ==
    ret.op = "_build_file_index"
    => /\ DOMAIN ret.index = UNION {DerivedName(file) : file \in TreeEntries(remote)}
       /\ \A name \in DOMAIN ret.index :
             ret.index[name] = LastDeriving(ret.all_files, name)


\* The order of the matrix: utf-8 then latin-1, and semicolon, comma, pipe within each.
MatrixOrder ==
    << <<"utf-8", ";">>, <<"utf-8", ",">>, <<"utf-8", "|">>,
       <<"latin-1", ";">>, <<"latin-1", ",">>, <<"latin-1", "|">> >>
\* The combinations, by position, that parse the payload without error into
\* more than one column.
Qualifying(payload) ==
    {i \in 1..Len(MatrixOrder) :
        ~payload[MatrixOrder[i]].raises /\ payload[MatrixOrder[i]].columns > 1}
ParseOf(payload, combo) ==
    [encoding |-> combo[1], sep |-> combo[2], columns |-> payload[combo].columns]

\* C18: for a csv file the combinations are tried in the order utf-8 then
\* latin-1 and, within each, semicolon, comma, pipe; the result is the parse of
\* the first combination that parses without error into more than one column,
\* no combination after it is tried, and when no combination of the matrix
\* qualifies every one has been tried and the result is None.
C18_CsvMatrix ==
    (ret.op = "_read_file" /\ "tried" \in DOMAIN ret)
    => LET payload == remote["f1"]
           q == Qualifying(payload)
       IN  IF q = {}
           THEN ret.kind = "None" /\ ret.df = {} /\ ret.tried = MatrixOrder
           ELSE LET first == CHOOSE i \in q : \A j \in q : i <= j
                IN  /\ ret.kind = "df"
                    /\ ret.df = {ParseOf(payload, MatrixOrder[first])}
                    /\ ret.tried = SubSeq(MatrixOrder, 1, first)

\* The file is read as latin-1 with commas after utf-8 raised for every
\* delimiter and latin-1 with semicolons gave one column, although latin-1
\* with pipes would also have given more than one column.
C18_Witness ==
    /\ ret.op = "_read_file"
    /\ ret.kind = "df"
    /\ ret.df = {[encoding |-> "latin-1", sep |-> ",", columns |-> 2]}
    /\ Len(ret.tried) = 5
    /\ \A i \in 1..3 : remote["f1"][MatrixOrder[i]].raises
    /\ remote["f1"][<<"latin-1", ";">>] = [raises |-> FALSE, columns |-> 1]
    /\ remote["f1"][<<"latin-1", "|">>] = [raises |-> FALSE, columns |-> 2]


\* The json file has been read and its data is a mapping that is not a
\* FeatureCollection.
MappingRead ==
    /\ ret.op = "_read_file"
    /\ "j1" \in DOMAIN remote
    /\ remote["j1"].is = "dict"
    /\ ~remote["j1"].fc
\* The positions of the mapping's values that are lists, and of those that
\* are lists with an element.
ListsOf(data) == {i \in 1..Len(data.items) : data.items[i].value.is = "list"}
NonEmptyListsOf(data) == {i \in ListsOf(data) : data.items[i].value.len > 0}
Least(S) == CHOOSE x \in S : \A y \in S : x <= y

\* C19 as stated: the first value that is a list is the one flattened into
\* rows, an empty one included; the mapping becomes a single row only when no
\* value is a list.
C19_AsStated ==
    MappingRead
    => LET data == remote["j1"]
       IN  IF ListsOf(data) # {}
           THEN LET item == data.items[Least(ListsOf(data))]
                IN  ret.df = {Normalized(item.key, item.value)}
           ELSE ret.df = {SingleRow}

\* C19: for a json file whose top-level value is a mapping that is not a
\* FeatureCollection, the first value, in insertion order, that is a list with
\* at least one element is flattened into rows (an empty list is passed
\* over); when no value is such a list, the whole mapping becomes a
\* single-row dataset.
C19_FirstNonEmptyList ==
    MappingRead
    => LET data == remote["j1"]
       IN  IF NonEmptyListsOf(data) # {}
           THEN LET item == data.items[Least(NonEmptyListsOf(data))]
                IN  ret.df = {Normalized(item.key, item.value)}
           ELSE ret.df = {SingleRow}

\* A mapping whose first value is an empty list and whose third is a list of
\* two records has been read as the rows of the third.
C19_Witness ==
    /\ MappingRead
    /\ Len(remote["j1"].items) = 3
    /\ remote["j1"].items[1].value = JsonList(0)
    /\ remote["j1"].items[2].value = JsonScalar
    /\ remote["j1"].items[3].value = JsonList(2)
    /\ ret.df = {Normalized("k3", JsonList(2))}


\* The int selector is inside the valid index range 0..(number of sheets - 1).
InRange(sel) == IntVal(sel) >= 0 /\ IntVal(sel) <= Len(SheetTitles) - 1
TitleMatches(sel) == \E i \in 1..Len(SheetTitles) : SheetTitles[i] = Fmt(sel)

\* C20: for the native spreadsheet an int selector is resolved by position and
\* a string selector by exact match against the sheet titles; a get_table
\* whose index listing did not raise returns None whenever the int is outside
\* 0..(number of sheets - 1), negative values included, or the title matches
\* no sheet.
C20_SelectorResolution ==
    [][\A sel \in RangeSelectors :
          (GetSheetStep(sel) /\ ret'.kind # "raise")
          => IF IsInt(sel)
             THEN /\ ~InRange(sel) => ret'.kind = "None"
                  /\ (InRange(sel) /\ ret'.kind = "df")
                     => ret'.dfs[NameB].df.sheet = SheetTitles[IntVal(sel) + 1]
             ELSE /\ ~TitleMatches(sel) => ret'.kind = "None"
                  /\ (TitleMatches(sel) /\ ret'.kind = "df")
                     => ret'.dfs[NameB].df.sheet = Fmt(sel)]_vars


\* C21: the fingerprint stored with a cache entry is made of the modifiedTime
\* of the version whose content was downloaded and parsed, also when the file
\* is modified while the load is in progress; so a get_table inside the TTL
\* whose fingerprint check answers and which is served from the cache returns
\* the content of the version the store holds at the call, never an older one.
C21_FingerprintOfParsedVersion ==
    [][/\ \A k \in DOMAIN cache' :
             cache'[k].hash.mt # {} => cache'[k].hash.mt = {cache'[k].df.ver}
       /\ \A sel \in Selectors :
             (InWindow(sel) /\ GetTableStep(sel, FALSE) /\ Hit(sel) /\ ~CheckFailed)
             => ret'.dfs[NameA].df.ver = remote[FileOf(NameA)].modifiedTime]_vars


\* The call returned a dataset without fetching anything: it was served from
\* the cache.
Served == ret'.kind = "df" /\ Fetches(gw') = {}

\* C22: a get_table served from the cache leaves the cache as it was, the
\* entry's dataset, fingerprint and capture timestamp included, and the entry
\* it is served from is younger than the TTL counted from the time it was
\* stored: hits do not prolong an entry.
C22_HitLeavesEntry ==
    [][\A sel \in Selectors, force_refresh \in BOOLEAN :
          (GetTableStep(sel, force_refresh) /\ Served)
          => /\ KeyOf(NameA, sel) \in DOMAIN cache
             /\ now - cache[KeyOf(NameA, sel)].timestamp < cache_ttl
             /\ ret'.dfs[NameA].df = cache[KeyOf(NameA, sel)].df
             /\ cache' = cache]_vars

\* A hit in the last minute of the window of an entry stored a minute
\* earlier: the entry is what it was before the call, timestamp included.
C22_Witness ==
    /\ ret.op = "get_table"
    /\ ret.kind = "df"
    /\ Fetches(gw) = {}
    /\ cache_ttl = 2
    /\ \E e \in ret.before.entry :
          /\ now - e.timestamp = cache_ttl - 1
          /\ ret.dfs[NameA].key \in DOMAIN cache
          /\ cache[ret.dfs[NameA].key] = e


\* C23: for a warehouse constructed with a cache TTL of m minutes, m any
\* non-negative integer (a day, 1440, or more included), the ttl_minutes that
\* get_cache_info reports is m.
C23_TtlReported ==
    ret.op = "get_cache_info" => ret.info.ttl_minutes = cache_ttl

====
